---- MODULE Spec2Model ----
(***************************************************************************)
(* Model of patternFromSlices.py: reconstruction of a 3D radiation pattern *)
(* from a vertical and a horizontal pattern slice.                         *)
(*                                                                         *)
(* Units.  Angles are held as integers in tenths of a degree (so 10.4 deg  *)
(* is 104) and gains as integers in hundredths of a dB (so -6 dB is -600). *)
(* Linear-domain values 10^(V/10) are held in hundredths (1.0 is 100).     *)
(* A numpy array is a sequence; a 2D array is a sequence of rows.          *)
(***************************************************************************)
EXTENDS Integers, Sequences, FiniteSets, TLC

VARIABLES
    args,               \* the arguments of the call to pattern_from_slices
    pc,                 \* position of the call
    phi,                \* local phi (after the default is applied)
    horiz_slice,        \* local horiz_slice (after materialisation)
    error,              \* the ValueError raised, or NoError
    warnings,           \* number of warnings.warn calls made
    max_directivity,
    vert_slice_norm,
    horiz_slice_norm,
    vert_mesh_log,
    horiz_mesh_log,
    pat3D,
    pat3D_isnan,        \* cells of pat3D that hold NaN
    theta_out,
    phi_out

vars == <<args, pc, phi, horiz_slice, error, warnings, max_directivity,
          vert_slice_norm, horiz_slice_norm, vert_mesh_log, horiz_mesh_log,
          pat3D, pat3D_isnan, theta_out, phi_out>>

-----------------------------------------------------------------------------
(* Units *)

Deg(d) == d * 10

dB(g) == g * 100

-----------------------------------------------------------------------------
(* numpy helpers *)

Abs(x) == IF x < 0 THEN -x ELSE x

\* np.mod(a, 360): result has the sign of the divisor, i.e. lies in [0, 360)
Mod360(a) == a % Deg(360)

\* Rounding with ties away from zero towards the next degree up
Round_HalfUp(a) == (2 * a + Deg(1)) \div (2 * Deg(1))

\* np.round: to the nearest whole degree, ties to the even degree
Round(a) ==
    LET q == a \div Deg(1)
        r == a % Deg(1)
    IN  IF 2 * r < Deg(1) THEN q
        ELSE IF 2 * r > Deg(1) THEN q + 1
        ELSE IF q % 2 = 0 THEN q ELSE q + 1

Range(s) == {s[i] : i \in 1..Len(s)}

\* np.max
Max(s) == LET R == Range(s) IN CHOOSE m \in R : \A x \in R : x <= m

\* np.min
Min(s) == LET R == Range(s) IN CHOOSE m \in R : \A x \in R : m <= x

\* np.argmin: index of the first occurrence of the minimum
ArgMin(s) == LET m == Min(s) IN CHOOSE i \in 1..Len(s) :
                /\ s[i] = m
                /\ \A j \in 1..(i - 1) : s[j] # m

\* np.arange(0, 360, 5): the grid without its end point
DefaultPhi_Exclusive == [i \in 1..72 |-> Deg(5 * (i - 1))]

\* np.arange(0, 361, 5)
DefaultPhi == [i \in 1..73 |-> Deg(5 * (i - 1))]

\* np.ones_like(a) without the factor x
Ones_Unscaled(a, x) == [i \in 1..Len(a) |-> dB(1)]

\* x * np.ones_like(a)
Ones(a, x) == [i \in 1..Len(a) |-> x]

\* a[mask] for a boolean mask: the elements whose index is in keep, in order
RECURSIVE Take(_, _, _)
Take(a, keep, i) ==
    IF i > Len(a) THEN <<>>
    ELSE IF i \in keep THEN <<a[i]>> \o Take(a, keep, i + 1)
    ELSE Take(a, keep, i + 1)

\* np.meshgrid(x, y) with the default 'xy' indexing: both results have
\* Len(y) rows and Len(x) columns
MeshgridX(x, y) == [r \in 1..Len(y) |-> [c \in 1..Len(x) |-> x[c]]]

MeshgridY(x, y) == [r \in 1..Len(y) |-> [c \in 1..Len(x) |-> y[r]]]

Cells(m) == {<<r, c>> : r \in 1..Len(m), c \in 1..(IF Len(m) = 0 THEN 0 ELSE Len(m[1]))}

NoError == <<"none", "", 0>>

-----------------------------------------------------------------------------
(* check_repeated_points *)

\* np.round(angles)
Rounded(angles) == [i \in 1..Len(angles) |-> Round(angles[i])]

\* vals[indices == i] for the unique angle u, as the set np.unique makes of it
ValsAt(vals, rounded, u) == {vals[i] : i \in {j \in 1..Len(rounded) : rounded[j] = u}}

\* unique_angles[repeated_vals], unique_angles being the distinct rounded
\* angles
RepeatedAngles(vals, angles) ==
    LET rounded == Rounded(angles)
    IN  {u \in Range(rounded) : Cardinality(ValsAt(vals, rounded, u)) > 1}

SetMin(S) == CHOOSE m \in S : \A x \in S : m <= x

\* The error check_repeated_points raises, or NoError.  np.unique sorts, so
\* repeated_angles[0] is the smallest offending rounded angle.
check_repeated_points(vals, angles, az_or_el) ==
    LET repeated_angles == RepeatedAngles(vals, angles)
    IN  IF repeated_angles # {}
        THEN <<"InconsistentDuplicateAngle", az_or_el, SetMin(repeated_angles)>>
        ELSE NoError

-----------------------------------------------------------------------------
(* check_reconstruction_requirements *)

phi_bs == Deg(0)

theta_bs == Deg(90)

\* np.min(np.abs(np.mod(angles - bs, 360)))
MinFromBs(angles, bs) ==
    LET dist == [i \in 1..Len(angles) |-> Abs(Mod360(angles[i] - bs))]
    IN  Min(dist)

\* np.argmin(np.abs(angles - bs))
BoresightIdx(angles, bs) ==
    LET dist == [i \in 1..Len(angles) |-> Abs(angles[i] - bs)]
    IN  ArgMin(dist)

\* slice[np.argmin(np.abs(angles - bs))]
BoresightGain(slice, angles, bs) == slice[BoresightIdx(angles, bs)]

\* |vert_slice[...] - horiz_slice[...]| of lines 114 and 116
IntersectDiff(vs, th, hs, ph) ==
    Abs(BoresightGain(vs, th, theta_bs) - BoresightGain(hs, ph, phi_bs))

\* The warn threshold compared with >= instead of >
IntersectWarns_Inclusive(vs, th, hs, ph, tol_diff) ==
    IntersectDiff(vs, th, hs, ph) >= tol_diff[1]

\* Whether the elif of line 116 is taken, given that no check raised
IntersectWarns(vs, th, hs, ph, tol_diff) == IntersectDiff(vs, th, hs, ph) > tol_diff[1]

\* The outcome of check_reconstruction_requirements: the error raised (or
\* NoError) and the number of warnings emitted
check_reconstruction_requirements(vs, th, hs, ph, tol_angle, tol_max, tol_diff) ==
    IF MinFromBs(th, theta_bs) > tol_angle
    THEN [error |-> <<"NoBoresightCoverage", "vertical", tol_angle>>, warnings |-> 0]
    ELSE IF MinFromBs(ph, phi_bs) > tol_angle
    THEN [error |-> <<"NoBoresightCoverage", "horizontal", tol_angle>>, warnings |-> 0]
    ELSE IF Max(vs) - BoresightGain(vs, th, theta_bs) > tol_max
    THEN [error |-> <<"BoresightNotNearPeak", "vertical", 0>>, warnings |-> 0]
    ELSE IF Max(hs) - BoresightGain(hs, ph, phi_bs) > tol_max
    THEN [error |-> <<"BoresightNotNearPeak", "horizontal", 0>>, warnings |-> 0]
    ELSE IF IntersectDiff(vs, th, hs, ph) > tol_diff[2]
    THEN [error |-> <<"SliceIntersectionMismatch", "", 0>>, warnings |-> 0]
    ELSE IF IntersectWarns(vs, th, hs, ph, tol_diff)
    THEN [error |-> NoError, warnings |-> 1]
    ELSE [error |-> NoError, warnings |-> 0]

-----------------------------------------------------------------------------
(* preprocess_data *)

\* The selection made on theta instead of theta_mod360
idx_theta_Unwrapped(theta) == {i \in 1..Len(theta) : theta[i] <= Deg(180)}

\* theta_mod360 <= 180, as the set of selected indices
idx_theta(theta) == {i \in 1..Len(theta) : Mod360(theta[i]) <= Deg(180)}

\* np.arange(len(phi)), as the set of selected indices
idx_phi(ph) == 1..Len(ph)

\* theta_out = theta[idx_theta]
ThetaOut(theta) == Take(theta, idx_theta(theta), 1)

\* phi_out = phi[idx_phi]
PhiOut(ph) == Take(ph, idx_phi(ph), 1)

VertMeshLog(vsn, theta, hsn, ph) ==
    MeshgridX(Take(vsn, idx_theta(theta), 1), Take(hsn, idx_phi(ph), 1))

HorizMeshLog(vsn, theta, hsn, ph) ==
    MeshgridY(Take(vsn, idx_theta(theta), 1), Take(hsn, idx_phi(ph), 1))

-----------------------------------------------------------------------------
(* Cross-weighted arithmetic, in fixed point *)

\* 100 * 10^(-a/10) for a whole attenuation a = 0, 1, ... dB, to the nearest
\* hundredth; below the last entry the value underflows to 0
LinTable == <<100, 79, 63, 50, 40, 32, 25, 20, 16, 13, 10, 8, 6, 5, 4, 3, 3, 2, 2, 1, 1>>

\* 10 ** (V / 10) for V <= 0, in hundredths
Lin(V) ==
    LET att == (dB(1) - 1 - V) \div dB(1)
    IN  IF att < Len(LinTable) THEN LinTable[att + 1] ELSE 0

RECURSIVE Pow(_, _)
Pow(w, k) == IF k = 0 THEN 1 ELSE w * Pow(w, k - 1)

\* the integer part of the cube root of n, by bisection on lo <= root < hi
RECURSIVE CbrtSearch(_, _, _)
CbrtSearch(n, lo, hi) ==
    IF hi - lo <= 1 THEN lo
    ELSE LET mid == (lo + hi) \div 2
         IN  IF mid * mid * mid <= n THEN CbrtSearch(n, mid, hi)
             ELSE CbrtSearch(n, lo, mid)

\* w1 = vert_mesh_lin * (1 - horiz_mesh_lin), in units of 1e-4
W1(V, H) == Lin(V) * (100 - Lin(H))

\* w2 = horiz_mesh_lin * (1 - vert_mesh_lin), in units of 1e-4
W2(V, H) == Lin(H) * (100 - Lin(V))

\* np.cbrt(w1 ** k + w2 ** k) for k = 2, in units of 1e-3:
\* cbrt(s / 1e8) = cbrt(10 s) / 1e3
CbrtDen(V, H, k) == CbrtSearch(10 * (Pow(W1(V, H), k) + Pow(W2(V, H), k)), 0, 1291)

\* horiz_mesh_log * w1 + vert_mesh_log * w2, in units of 1e-4 of the gain unit
CrossNum(V, H) == H * W1(V, H) + V * W2(V, H)

\* Whether the quotient of line 68 is NaN (0/0) in this cell
CrossIsNaN(V, H, k) == CbrtDen(V, H, k) = 0

\* The quotient of line 68 in gain units; a NaN cell is carried as 0 with its
\* index in the NaN mask
CrossQuotient(V, H, k) ==
    IF CbrtDen(V, H, k) = 0 THEN 0
    ELSE CrossNum(V, H) \div (10 * CbrtDen(V, H, k))

\* Line 69 left out
CrossGuard_Never(V, H) == FALSE

\* np.logical_and(w1 == 0, w2 == 0)
CrossGuard(V, H) == W1(V, H) = 0 /\ W2(V, H) = 0

\* One cell of pat3D after lines 68-69
CrossCell(V, H, k) == IF CrossGuard(V, H) THEN 0 ELSE CrossQuotient(V, H, k)

\* Whether the cell is still NaN after line 69
CrossCellIsNaN(V, H, k) == ~CrossGuard(V, H) /\ CrossIsNaN(V, H, k)

-----------------------------------------------------------------------------
(* pattern_from_slices *)

Raise(e) ==
    /\ error' = e
    /\ pc' = "raised"

\* Lines 28-40: the dimension checks, the default phi and the materialised
\* horizontal slice
CheckDimensions ==
    /\ pc = "check_dimensions"
    /\ IF Len(args.vert_slice) # Len(args.theta)
       THEN /\ Raise(<<"DimensionMismatch", "el", 0>>)
            /\ UNCHANGED <<phi, horiz_slice>>
       ELSE LET ph == IF args.phi_given THEN args.phi ELSE DefaultPhi
            IN  /\ phi' = ph
                /\ IF args.horiz_kind = "None"
                   THEN /\ horiz_slice' = Ones(ph, Max(args.vert_slice))
                        /\ pc' = "check_repeated_el"
                        /\ UNCHANGED error
                   ELSE IF args.horiz_kind = "scalar"
                   THEN /\ horiz_slice' = Ones(ph, args.horiz_slice[1])
                        /\ pc' = "check_repeated_el"
                        /\ UNCHANGED error
                   ELSE IF Len(args.horiz_slice) # Len(ph)
                   THEN /\ Raise(<<"DimensionMismatch", "az", 0>>)
                        /\ UNCHANGED horiz_slice
                   ELSE /\ horiz_slice' = args.horiz_slice
                        /\ pc' = "check_repeated_el"
                        /\ UNCHANGED error
    /\ UNCHANGED <<args, warnings, max_directivity, vert_slice_norm,
                   horiz_slice_norm, vert_mesh_log, horiz_mesh_log, pat3D,
                   pat3D_isnan, theta_out, phi_out>>

\* Line 43: check_repeated_points(vert_slice, theta, 'el')
CheckRepeatedPointsEl ==
    /\ pc = "check_repeated_el"
    /\ LET e == check_repeated_points(args.vert_slice, args.theta, "el")
       IN  IF e # NoError
           THEN Raise(e)
           ELSE /\ pc' = "check_repeated_az"
                /\ UNCHANGED error
    /\ UNCHANGED <<args, phi, horiz_slice, warnings, max_directivity,
                   vert_slice_norm, horiz_slice_norm, vert_mesh_log,
                   horiz_mesh_log, pat3D, pat3D_isnan, theta_out, phi_out>>

\* Line 44: check_repeated_points(horiz_slice, phi, 'az')
CheckRepeatedPointsAz ==
    /\ pc = "check_repeated_az"
    /\ LET e == check_repeated_points(horiz_slice, phi, "az")
       IN  IF e # NoError
           THEN Raise(e)
           ELSE /\ pc' = "check_requirements"
                /\ UNCHANGED error
    /\ UNCHANGED <<args, phi, horiz_slice, warnings, max_directivity,
                   vert_slice_norm, horiz_slice_norm, vert_mesh_log,
                   horiz_mesh_log, pat3D, pat3D_isnan, theta_out, phi_out>>

\* Lines 47-50: the call of check_reconstruction_requirements
CheckReconstructionRequirements ==
    /\ pc = "check_requirements"
    /\ LET out == check_reconstruction_requirements(
                      args.vert_slice, args.theta, horiz_slice, phi,
                      args.tol_nearest_angle_from_boresight,
                      args.tol_gain_max_vs_boresight,
                      args.tol_gain_diff_at_slice_intersect)
       IN  /\ warnings' = warnings + out.warnings
           /\ IF out.error # NoError
              THEN Raise(out.error)
              ELSE /\ pc' = "normalize"
                   /\ UNCHANGED error
    /\ UNCHANGED <<args, phi, horiz_slice, max_directivity, vert_slice_norm,
                   horiz_slice_norm, vert_mesh_log, horiz_mesh_log, pat3D,
                   pat3D_isnan, theta_out, phi_out>>

\* max(np.max(vert_slice), np.max(horiz_slice))
MaxDirectivity(vs, hs) ==
    LET mv == Max(vs)
        mh == Max(hs)
    IN  IF mv >= mh THEN mv ELSE mh

\* slice - max_directivity
Shift(slice, m) == [i \in 1..Len(slice) |-> slice[i] - m]

\* Lines 52-55
Normalize ==
    /\ pc = "normalize"
    /\ max_directivity' = MaxDirectivity(args.vert_slice, horiz_slice)
    /\ vert_slice_norm' = Shift(args.vert_slice, max_directivity')
    /\ horiz_slice_norm' = Shift(horiz_slice, max_directivity')
    /\ pc' = "dispatch"
    /\ UNCHANGED <<args, phi, horiz_slice, error, warnings, vert_mesh_log,
                   horiz_mesh_log, pat3D, pat3D_isnan, theta_out, phi_out>>

\* The call of preprocess_data on lines 59 and 62
Preprocess ==
    /\ vert_mesh_log' = VertMeshLog(vert_slice_norm, args.theta, horiz_slice_norm, phi)
    /\ horiz_mesh_log' = HorizMeshLog(vert_slice_norm, args.theta, horiz_slice_norm, phi)
    /\ theta_out' = ThetaOut(args.theta)
    /\ phi_out' = PhiOut(phi)

\* The two grids subtracted instead of added
SumGrid_Difference(A, B) ==
    [r \in 1..Len(A) |-> [c \in 1..Len(A[r]) |-> A[r][c] - B[r][c]]]

\* vert_mesh_log + horiz_mesh_log, elementwise
SumGrid(A, B) ==
    [r \in 1..Len(A) |-> [c \in 1..Len(A[r]) |-> A[r][c] + B[r][c]]]

\* pat3D after lines 63-69, elementwise
CrossGrid(A, B, k) ==
    [r \in 1..Len(A) |-> [c \in 1..Len(A[r]) |-> CrossCell(A[r][c], B[r][c], k)]]

\* The cells of pat3D that hold NaN after lines 63-69
CrossNaNCells(A, B, k) ==
    {rc \in Cells(A) : CrossCellIsNaN(A[rc[1]][rc[2]], B[rc[1]][rc[2]], k)}

\* Lines 58-60
ReconstructSumming ==
    /\ pc = "dispatch"
    /\ args.method = "Summing"
    /\ Preprocess
    /\ pat3D' = SumGrid(vert_mesh_log', horiz_mesh_log')
    /\ pat3D_isnan' = {}
    /\ pc' = "denormalize"
    /\ UNCHANGED <<args, phi, horiz_slice, error, warnings, max_directivity,
                   vert_slice_norm, horiz_slice_norm>>

\* Lines 61-69
ReconstructCrossWeighted ==
    /\ pc = "dispatch"
    /\ args.method = "CrossWeighted"
    /\ Preprocess
    /\ pat3D' = CrossGrid(vert_mesh_log', horiz_mesh_log',
                          args.cross_weighted_normalization)
    /\ pat3D_isnan' = CrossNaNCells(vert_mesh_log', horiz_mesh_log',
                                    args.cross_weighted_normalization)
    /\ pc' = "denormalize"
    /\ UNCHANGED <<args, phi, horiz_slice, error, warnings, max_directivity,
                   vert_slice_norm, horiz_slice_norm>>

\* The method test made before validation
RaiseUnknownMethod_Early ==
    /\ pc = "check_dimensions"
    /\ args.method \notin {"Summing", "CrossWeighted"}
    /\ Raise(<<"UnknownMethod", args.method, 0>>)
    /\ UNCHANGED <<args, phi, horiz_slice, warnings, max_directivity,
                   vert_slice_norm, horiz_slice_norm, vert_mesh_log,
                   horiz_mesh_log, pat3D, pat3D_isnan, theta_out, phi_out>>

\* Lines 70-71
RaiseUnknownMethod ==
    /\ pc = "dispatch"
    /\ args.method \notin {"Summing", "CrossWeighted"}
    /\ Raise(<<"UnknownMethod", args.method, 0>>)
    /\ UNCHANGED <<args, phi, horiz_slice, warnings, max_directivity,
                   vert_slice_norm, horiz_slice_norm, vert_mesh_log,
                   horiz_mesh_log, pat3D, pat3D_isnan, theta_out, phi_out>>

\* Lines 73-76: pat3D + max_directivity, and the return
Denormalize ==
    /\ pc = "denormalize"
    /\ pat3D' = [r \in 1..Len(pat3D) |->
                    [c \in 1..Len(pat3D[r]) |-> pat3D[r][c] + max_directivity]]
    /\ pc' = "returned"
    /\ UNCHANGED <<args, phi, horiz_slice, error, warnings, max_directivity,
                   vert_slice_norm, horiz_slice_norm, vert_mesh_log,
                   horiz_mesh_log, pat3D_isnan, theta_out, phi_out>>

-----------------------------------------------------------------------------
(* The calls explored *)

\* longest slice in the exhaustive input families
MaxLen == 2

\* The default tolerances of the signature, lines 7-8
TolDefault ==
    [angle |-> Deg(10), max |-> dB(3), diff |-> <<dB(1), dB(3)>>]

TolConfigs ==
    { TolDefault,
      [angle |-> Deg(10), max |-> dB(4), diff |-> <<dB(1), dB(4)>>],
      [angle |-> Deg(5),  max |-> dB(4), diff |-> <<dB(2), dB(3)>>] }

Methods == {"Summing", "CrossWeighted", "Kriging"}

\* (method, tolerances) pairs: every method under the defaults, every
\* tolerance configuration under Summing
Modes ==
    {<<m, TolDefault>> : m \in Methods} \cup {<<"Summing", t>> : t \in TolConfigs}

ThetaVals ==
    { Deg(80), Deg(90), Deg(100), Deg(100) + 1, Deg(450), Deg(-170) }

PhiVals ==
    { Deg(0), Deg(10), Deg(10) + 4, Deg(10) + 5, Deg(355), Deg(360) }

GainVals == { dB(0), dB(-4) }

Call(vs, th, hk, hs, pg, ph, mode) ==
    [ vert_slice |-> vs, theta |-> th,
      horiz_kind |-> hk, horiz_slice |-> hs,
      phi_given |-> pg, phi |-> ph,
      method |-> mode[1],
      cross_weighted_normalization |-> 2,
      tol_nearest_angle_from_boresight |-> mode[2].angle,
      tol_gain_max_vs_boresight |-> mode[2].max,
      tol_gain_diff_at_slice_intersect |-> mode[2].diff ]

\* The horizontal side of a call: kind, gains, whether phi is given, phi
HorizFixed ==
    { <<"None",   <<>>,        FALSE, <<>>>>,
      <<"None",   <<>>,        TRUE,  <<Deg(0), Deg(90)>>>>,
      <<"scalar", <<dB(-1)>>,  TRUE,  <<Deg(0), Deg(90)>>>>,
      <<"vector", <<dB(0)>>,   TRUE,  <<Deg(0)>>>>,
      <<"vector", <<dB(-2), dB(-1)>>, TRUE, <<Deg(0), Deg(180)>>>> }

VertFixed ==
    { [a |-> <<Deg(90)>>, g |-> <<dB(0)>>],
      [a |-> <<Deg(45), Deg(90)>>, g |-> <<dB(-6), dB(-1)>>],
      [a |-> <<Deg(90), Deg(135)>>, g |-> <<dB(-2), dB(-3)>>] }

\* The end-to-end scenario: five theta samples, four phi samples
ScenarioTheta == <<Deg(0), Deg(45), Deg(90), Deg(135), Deg(180)>>

ScenarioVert == <<dB(-20), dB(-6), dB(0), dB(-6), dB(-20)>>

ScenarioPhi == <<Deg(0), Deg(90), Deg(180), Deg(270)>>

ScenarioHoriz == <<dB(0), dB(-10), dB(-20), dB(-10)>>

\* The scenario under every mode, with the horizontal side given or absent
ScenarioCall(a) ==
    \E h \in { <<"vector", ScenarioHoriz, TRUE, ScenarioPhi>>,
               <<"None", <<>>, FALSE, <<>>>>,
               <<"None", <<>>, TRUE, ScenarioPhi>> },
       mode \in Modes :
        a = Call(ScenarioVert, ScenarioTheta, h[1], h[2], h[3], h[4], mode)

\* Every vertical slice up to MaxLen against a few horizontal sides
VerticalCall(a) ==
    \E l \in 1..MaxLen :
        \E th \in [1..l -> ThetaVals], vs \in [1..l -> GainVals],
           h \in HorizFixed, mode \in Modes :
            a = Call(vs, th, h[1], h[2], h[3], h[4], mode)

\* Every horizontal slice up to MaxLen against a few vertical slices
HorizontalCall(a) ==
    \E l \in 1..MaxLen :
        \E ph \in [1..l -> PhiVals], hs \in [1..l -> GainVals],
           v \in VertFixed, mode \in Modes :
            a = Call(v.g, v.a, "vector", hs, TRUE, ph, mode)

\* Calls whose angle and gain series differ in length
MismatchedCall(a) ==
    \E vs \in {<<dB(0)>>, <<dB(0), dB(-3)>>},
       hs \in {<<dB(0)>>, <<dB(0), dB(-3)>>},
       m \in Methods :
        /\ Len(vs) # 1 \/ Len(hs) # 1
        /\ a = Call(vs, <<Deg(90)>>, "vector", hs, TRUE, <<Deg(0)>>, <<m, TolDefault>>)

IsInput(a) ==
    \/ ScenarioCall(a)
    \/ VerticalCall(a)
    \/ HorizontalCall(a)
    \/ MismatchedCall(a)

Init ==
    /\ IsInput(args)
    /\ pc = "check_dimensions"
    /\ phi = <<>>
    /\ horiz_slice = <<>>
    /\ error = NoError
    /\ warnings = 0
    /\ max_directivity = 0
    /\ vert_slice_norm = <<>>
    /\ horiz_slice_norm = <<>>
    /\ vert_mesh_log = <<>>
    /\ horiz_mesh_log = <<>>
    /\ pat3D = <<>>
    /\ pat3D_isnan = {}
    /\ theta_out = <<>>
    /\ phi_out = <<>>

Next ==
    \/ CheckDimensions
    \/ CheckRepeatedPointsEl
    \/ CheckRepeatedPointsAz
    \/ CheckReconstructionRequirements
    \/ Normalize
    \/ ReconstructSumming
    \/ ReconstructCrossWeighted
    \/ RaiseUnknownMethod
    \/ Denormalize

Spec == Init /\ [][Next]_vars

-----------------------------------------------------------------------------
(* Vocabulary of the properties, stated on the arguments of the call *)

Known == {"Summing", "CrossWeighted"}

\* The indices of the theta samples whose wrapped value is at most 180 degrees
Retained == {i \in 1..Len(args.theta) : args.theta[i] % 3600 <= 1800}

\* The input index of the i-th retained theta sample
NthRetained(i) == CHOOSE n \in Retained : Cardinality({m \in Retained : m < n}) = i - 1

\* The input vertical gains of the retained theta samples, in input order
RetainedVert ==
    [i \in 1..Cardinality(Retained) |-> args.vert_slice[NthRetained(i)]]

\* The maximum gain over both slices
PeakOfBoth ==
    CHOOSE m \in Range(args.vert_slice) \cup Range(horiz_slice) :
        \A x \in Range(args.vert_slice) \cup Range(horiz_slice) : x <= m

\* The peak of the vertical slice
VertPeak == CHOOSE m \in Range(args.vert_slice) : \A x \in Range(args.vert_slice) : x <= m

IsScenario ==
    /\ args.theta = <<0, 450, 900, 1350, 1800>>
    /\ args.vert_slice = <<-2000, -600, 0, -600, -2000>>
    /\ args.horiz_kind = "vector"
    /\ args.phi_given
    /\ args.phi = <<0, 900, 1800, 2700>>
    /\ args.horiz_slice = <<0, -1000, -2000, -1000>>

IsRectangular(grid, rows, cols) ==
    /\ Len(grid) = rows
    /\ \A r \in 1..rows : Len(grid[r]) = cols

-----------------------------------------------------------------------------
(* C1 *)

-----------------------------------------------------------------------------
(* C6 *)

\* C6 as stated: theta_out is the retained theta samples in input order and
\* phi_out every phi sample in input order, both after wrapping, so that
\* every returned angle lies in [0, 360).
C6_Wrapped ==
    pc = "returned" =>
        /\ Len(theta_out) = Cardinality(Retained)
        /\ \A i \in 1..Len(theta_out) : theta_out[i] = args.theta[NthRetained(i)] % 3600
        /\ Len(phi_out) = Len(phi)
        /\ \A j \in 1..Len(phi_out) : phi_out[j] = phi[j] % 3600
        /\ \A i \in 1..Len(theta_out) : theta_out[i] >= 0 /\ theta_out[i] < 3600
        /\ \A j \in 1..Len(phi_out) : phi_out[j] >= 0 /\ phi_out[j] < 3600

\* C6 amended: theta_out is exactly the input theta samples whose value
\* wrapped modulo 360 is <= 180, in input order, and phi_out contains every
\* phi sample, in input order; both are returned with their input values,
\* not wrapped (wrapping only decides which theta samples are retained).
C6_Unwrapped ==
    pc = "returned" =>
        /\ Len(theta_out) = Cardinality(Retained)
        /\ \A i \in 1..Len(theta_out) : theta_out[i] = args.theta[NthRetained(i)]
        /\ Len(phi_out) = Len(phi)
        /\ \A j \in 1..Len(phi_out) : phi_out[j] = phi[j]
        /\ args.phi_given => phi_out = args.phi
        /\ ~args.phi_given => /\ Len(phi_out) = 73
                              /\ \A j \in 1..73 : phi_out[j] = 50 * (j - 1)

\* A call has returned that dropped a theta sample and kept one that lies
\* outside [0, 360)
C6_Witness ==
    /\ pc = "returned"
    /\ Len(theta_out) < Len(args.theta)
    /\ \E i \in 1..Len(theta_out) : theta_out[i] >= 3600

-----------------------------------------------------------------------------
(* C8 *)

\* C8: when horizontal_gain and phi are both absent, the horizontal slice is
\* the vertical peak over the 73 samples 0, 5, ..., 360; max_directivity is
\* the vertical peak; the normalized horizontal grid is 0 in every cell; and
\* under Summing every returned entry for retained theta sample i equals the
\* input vertical gain of that sample.
C8_OmniDefault ==
    (args.horiz_kind = "None" /\ ~args.phi_given) =>
        /\ pc \notin {"check_dimensions", "raised"} =>
              /\ Len(phi) = 73
              /\ \A j \in 1..73 : phi[j] = 50 * (j - 1)
              /\ Len(horiz_slice) = 73
              /\ \A j \in 1..73 : horiz_slice[j] = VertPeak
        /\ pc \in {"dispatch", "denormalize", "returned"} =>
              /\ max_directivity = VertPeak
              /\ \A j \in 1..73 : horiz_slice_norm[j] = 0
        /\ pc \in {"denormalize", "returned"} =>
              \A rc \in Cells(horiz_mesh_log) : horiz_mesh_log[rc[1]][rc[2]] = 0
        /\ (pc = "returned" /\ args.method = "Summing") =>
              LET vert == RetainedVert
              IN  /\ Len(pat3D) = 73
                  /\ \A j \in 1..73 : pat3D[j] = vert

\* A Summing call without horizontal_gain and phi has returned for a vertical
\* slice with two different gains, one of them dropped
C8_Witness ==
    /\ args.horiz_kind = "None"
    /\ ~args.phi_given
    /\ args.method = "Summing"
    /\ pc = "returned"
    /\ Cardinality(Range(args.vert_slice)) > 1
    /\ Len(pat3D) = 73

-----------------------------------------------------------------------------
(* Vocabulary of the validation properties *)

\* The angular distance between two angles: modulo 360, as an absolute value
AngDist(a, b) ==
    LET d == (a - b) % 3600
    IN  IF d <= 1800 THEN d ELSE 3600 - d

\* The smallest angular distance between any sample angle and boresight
NearestDist(angles, bs) ==
    CHOOSE d \in {AngDist(angles[i], bs) : i \in 1..Len(angles)} :
        \A i \in 1..Len(angles) : d <= AngDist(angles[i], bs)

\* The gains of the samples at the smallest angular distance from boresight
NearestGains(slice, angles, bs) ==
    {slice[i] : i \in {j \in 1..Len(angles) : AngDist(angles[j], bs) = NearestDist(angles, bs)}}

Peak(slice) == CHOOSE m \in Range(slice) : \A x \in Range(slice) : x <= m

\* The whole degree an angle rounds to (ties to the even degree)
NearestDegree(a) ==
    CHOOSE d \in (a \div 10)..(a \div 10 + 1) :
        \/ 2 * Abs(a - 10 * d) < 10
        \/ 2 * Abs(a - 10 * d) = 10 /\ d % 2 = 0

\* Two samples of one slice share a rounded angle and differ in gain
Clash(vals, angles) ==
    LET degree == [i \in 1..Len(angles) |-> NearestDegree(angles[i])]
    IN  /\ Cardinality(Range(vals)) > 1
        /\ \E i, j \in 1..Len(angles) :
              /\ vals[i] # vals[j]
              /\ degree[i] = degree[j]

TolAngle == args.tol_nearest_angle_from_boresight

TolMax == args.tol_gain_max_vs_boresight

TolWarn == args.tol_gain_diff_at_slice_intersect[1]

TolErr == args.tol_gain_diff_at_slice_intersect[2]

\* Both calls of check_repeated_points are over
RepeatedChecked ==
    \/ pc \in {"check_requirements", "normalize", "dispatch", "denormalize", "returned"}
    \/ pc = "raised" /\ error[1] # "DimensionMismatch"

\* The coverage checks have run
CoverageChecked ==
    \/ pc \in {"normalize", "dispatch", "denormalize", "returned"}
    \/ pc = "raised" /\ error[1] \notin {"DimensionMismatch", "InconsistentDuplicateAngle"}

\* The coverage checks have run and passed
PeakChecked == CoverageChecked /\ error[1] # "NoBoresightCoverage"

\* All checks before the cross-slice agreement check have run and passed
IntersectChecked == PeakChecked /\ error[1] # "BoresightNotNearPeak"

-----------------------------------------------------------------------------
(* C2 *)

\* C2: once the coverage checks have run, the call has failed with
\* NoBoresightCoverage if and only if, for the vertical slice (boresight 90)
\* or the horizontal slice (boresight 0), the smallest angular distance
\* between a sample and boresight, on either side of it, is strictly greater
\* than the tolerance.
C2_CoverageEitherSide ==
    CoverageChecked =>
        ( error[1] = "NoBoresightCoverage"
          <=> \/ NearestDist(args.theta, 900) > TolAngle
              \/ NearestDist(phi, 0) > TolAngle )

-----------------------------------------------------------------------------
(* C4 *)

\* C4: once both duplicate checks have run, the call has failed with
\* InconsistentDuplicateAngle if and only if, within the vertical slice or
\* within the horizontal slice, two samples round to the same whole degree
\* and differ in gain; a vertical and a horizontal sample that share a
\* rounded angle never clash.
C4_DuplicateAngles ==
    RepeatedChecked =>
        ( error[1] = "InconsistentDuplicateAngle"
          <=> Clash(args.vert_slice, args.theta) \/ Clash(horiz_slice, phi) )

\* The call has failed on a horizontal slice sampled at 10.0 and 10.4 degrees
\* with differing gains
C4_Witness ==
    /\ pc = "raised"
    /\ error[1] = "InconsistentDuplicateAngle"
    /\ error[2] = "az"
    /\ phi = <<100, 104>>
    /\ horiz_slice[1] # horiz_slice[2]

-----------------------------------------------------------------------------
(* C7 *)

\* C7: once the coverage checks have passed, the call has failed with
\* BoresightNotNearPeak if and only if a slice's maximum gain exceeds by more
\* than the tolerance the gain of a sample at the smallest angular distance
\* (modulo 360) from boresight.
C7_BoresightModulo ==
    PeakChecked =>
        /\ error[1] = "BoresightNotNearPeak" =>
              \/ \E g \in NearestGains(args.vert_slice, args.theta, 900) :
                    Peak(args.vert_slice) - g > TolMax
              \/ \E g \in NearestGains(horiz_slice, phi, 0) :
                    Peak(horiz_slice) - g > TolMax
        /\ error[1] # "BoresightNotNearPeak" =>
              /\ \E g \in NearestGains(args.vert_slice, args.theta, 900) :
                    Peak(args.vert_slice) - g <= TolMax
              /\ \E g \in NearestGains(horiz_slice, phi, 0) :
                    Peak(horiz_slice) - g <= TolMax

-----------------------------------------------------------------------------
(* C3 *)

\* The gain of the sample nearest boresight, as the checks of lines 107-116
\* select it
VertBsGain == BoresightGain(args.vert_slice, args.theta, theta_bs)

HorizBsGain == BoresightGain(horiz_slice, phi, phi_bs)

\* The pattern the call returns for its slices and method, whatever the
\* tolerances and the warnings: one row per phi sample, one column per
\* retained theta sample
ExpectedPattern ==
    LET m == PeakOfBoth
        vert == RetainedVert
        V(i) == vert[i] - m
        H(j) == horiz_slice[j] - m
    IN  [j \in 1..Len(phi) |->
            [i \in 1..Len(vert) |->
                m + (IF args.method = "Summing" THEN V(i) + H(j)
                     ELSE CrossCell(V(i), H(j), args.cross_weighted_normalization))]]

\* C3: once all earlier checks have passed, with D the absolute difference of
\* the two boresight-nearest gains: D > error fails with
\* SliceIntersectionMismatch and returns no pattern; warn < D <= error emits
\* exactly one warning and the call goes on to return the pattern of its
\* slices and method; D <= warn emits no warning.
C3_ThreeOutcomes ==
    LET D == Abs(VertBsGain - HorizBsGain)
    IN  IntersectChecked =>
            /\ D > TolErr =>
                  /\ pc = "raised"
                  /\ error[1] = "SliceIntersectionMismatch"
                  /\ warnings = 0
                  /\ pat3D = <<>>
            /\ (TolWarn < D /\ D <= TolErr) =>
                  /\ warnings = 1
                  /\ error[1] \in {"none", "UnknownMethod"}
                  /\ error[1] = "UnknownMethod" <=> (pc = "raised")
                  /\ pc = "returned" => pat3D = ExpectedPattern
            /\ D <= TolWarn => warnings = 0
            /\ D <= TolErr => error[1] # "SliceIntersectionMismatch"
            /\ pc = "returned" => pat3D = ExpectedPattern

\* A call whose difference equals the error threshold has warned once and
\* returned its pattern
C3_Witness ==
    /\ pc = "returned"
    /\ warnings = 1
    /\ Abs(VertBsGain - HorizBsGain) = TolErr
    /\ TolWarn < TolErr

-----------------------------------------------------------------------------
(* C10 *)

\* C10: when horizontal_gain is absent and the cross-slice error threshold is
\* at least the max-gain-vs-boresight tolerance, the call never fails with
\* SliceIntersectionMismatch: where the cross-slice check is reached the
\* difference it compares is (vertical peak - vertical boresight gain), and a
\* warning is emitted there exactly when that excess is more than the warn
\* threshold.
C10_OmniNeverMismatch ==
    (args.horiz_kind = "None" /\ TolErr >= TolMax) =>
        /\ error[1] # "SliceIntersectionMismatch"
        /\ warnings <= 1
        /\ IntersectChecked =>
              /\ Abs(VertBsGain - HorizBsGain) = VertPeak - VertBsGain
              /\ VertPeak - VertBsGain <= TolMax
              /\ warnings = 1 <=> VertPeak - VertBsGain > TolWarn

\* A call without horizontal_gain has warned and returned
C10_Witness ==
    /\ args.horiz_kind = "None"
    /\ TolErr >= TolMax
    /\ pc = "returned"
    /\ warnings = 1
    /\ VertPeak - VertBsGain > TolWarn

-----------------------------------------------------------------------------
(* C9 *)

\* The outcome of validation for the slices and tolerances of the call: the
\* checks of lines 28-50 in their order, none of which reads the method
ValidationOutcome ==
    LET ph == IF args.phi_given THEN args.phi ELSE DefaultPhi
        hs == IF args.horiz_kind = "vector" THEN args.horiz_slice
              ELSE IF args.horiz_kind = "scalar" THEN Ones(ph, args.horiz_slice[1])
              ELSE Ones(ph, VertPeak)
    IN  IF Len(args.vert_slice) # Len(args.theta)
        THEN [error |-> <<"DimensionMismatch", "el", 0>>, warnings |-> 0]
        ELSE IF Len(hs) # Len(ph)
        THEN [error |-> <<"DimensionMismatch", "az", 0>>, warnings |-> 0]
        ELSE IF Clash(args.vert_slice, args.theta)
        THEN [error |-> check_repeated_points(args.vert_slice, args.theta, "el"),
              warnings |-> 0]
        ELSE IF Clash(hs, ph)
        THEN [error |-> check_repeated_points(hs, ph, "az"), warnings |-> 0]
        ELSE check_reconstruction_requirements(
                 args.vert_slice, args.theta, hs, ph, TolAngle, TolMax,
                 <<TolWarn, TolErr>>)

\* C9: the validation outcome of a finished call is the one its slices and
\* tolerances determine, whatever the method; UnknownMethod is raised only
\* when every validation check has passed, and then exactly for a method
\* other than Summing and CrossWeighted, after any warning and with no
\* pattern returned.
C9_ValidationFirst ==
    LET out == ValidationOutcome
    IN  /\ error[1] = "UnknownMethod" =>
              /\ out.error = NoError
              /\ args.method \notin Known
              /\ warnings = out.warnings
              /\ pat3D = <<>>
        /\ pc \in {"raised", "returned"} =>
              /\ out.error # NoError => error = out.error
              /\ warnings = out.warnings
              /\ (out.error = NoError /\ args.method \notin Known) =>
                    /\ pc = "raised"
                    /\ error[1] = "UnknownMethod"
              /\ (out.error = NoError /\ args.method \in Known) =>
                    pc = "returned"

\* A call with an unrecognized method has passed validation with a warning
\* and raised UnknownMethod
C9_Witness ==
    /\ pc = "raised"
    /\ error[1] = "UnknownMethod"
    /\ warnings = 1

-----------------------------------------------------------------------------
(* C5 *)

\* C5: with method CrossWeighted and k = 2, every normalized input is <= 0;
\* in every cell the combined value before denormalization is a defined
\* number <= 0, and it is exactly 0 where both slices are at the normalized
\* peak; no entry of the returned grid exceeds max_directivity.
C5_CrossWeightedBounded ==
    (args.method = "CrossWeighted" /\ args.cross_weighted_normalization = 2) =>
        /\ pc = "denormalize" =>
              \A rc \in Cells(pat3D) :
                  LET V == vert_mesh_log[rc[1]][rc[2]]
                      H == horiz_mesh_log[rc[1]][rc[2]]
                  IN  /\ V <= 0
                      /\ H <= 0
                      /\ rc \notin pat3D_isnan
                      /\ pat3D[rc[1]][rc[2]] <= 0
                      /\ (V = 0 /\ H = 0) => pat3D[rc[1]][rc[2]] = 0
        /\ pc = "returned" =>
              LET peak == PeakOfBoth
              IN  /\ pat3D_isnan = {}
                  /\ \A rc \in Cells(pat3D) : pat3D[rc[1]][rc[2]] <= peak

\* A CrossWeighted grid, before denormalization, with a cell at the peak of
\* both slices and a cell below it
C5_Witness ==
    /\ args.method = "CrossWeighted"
    /\ pc = "denormalize"
    /\ \E rc \in Cells(pat3D) :
          /\ vert_mesh_log[rc[1]][rc[2]] = 0
          /\ horiz_mesh_log[rc[1]][rc[2]] = 0
          /\ pat3D[rc[1]][rc[2]] = 0
    /\ \E rc \in Cells(pat3D) : pat3D[rc[1]][rc[2]] < 0

====
